---------------------------- MODULE Spec2Model ----------------------------
(***************************************************************************)
(* A model of cwgen, a Morse code generator:                               *)
(*   src/src/morse.rs   the MORSE table, Timing, text_to_morse            *)
(*   src/src/main.rs    main and validate_args                             *)
(*   src/src/audio.rs   ToneGenerator, SsbNoise, MorseAudio, the WAV sink  *)
(*   src/src/interactive.rs   practice_mode                                *)
(*                                                                         *)
(* Representation.                                                         *)
(*   - A Rust char is a one-character string; a str / String is a sequence *)
(*     of chars ("AB" is <<"A", "B">>).                                    *)
(*   - A Duration is a whole number of milliseconds (every Duration of     *)
(*     Timing is built with Duration::from_millis and integer arithmetic). *)
(*   - A sample count (sample_rate as f64 * dur.as_secs_f64()) as usize is *)
(*     the exact floor of sample_rate * dur; f64 rounding is not modelled. *)
(*   - sample_time is counted in samples (the code adds 1/sample_rate per  *)
(*     sample), the oscillator phase in units of 2*pi/sample_rate, so that *)
(*     the increment 2*pi*f/sample_rate is f units and 2*pi is             *)
(*     sample_rate units.                                                  *)
(*   - Sample amplitudes are not computed (sin, the random noise); a       *)
(*     buffer entry records which generators contributed to it and the     *)
(*     envelope multiplier as a fraction.                                  *)
(* The specifications share the variables:                                 *)
(*   SpecCli       main: validate_args, then the Timing constructors       *)
(*   SpecMorse     text_to_morse                                           *)
(*   SpecRender    MorseAudio::new_with_sample_rate, one sample per step   *)
(*   SpecEnvelope  the same on inputs with long attack and release windows *)
(*   SpecTone      ToneGenerator under arbitrary call sequences            *)
(*   SpecWav       save_audio_to_wav, one sample per step                  *)
(*   SpecPractice  practice_mode, one event per step                       *)
(***************************************************************************)
EXTENDS Integers, Sequences, FiniteSets, TLC

VARIABLES
    pc,               \* position of the running function
    args,             \* main.rs Args: wpm, tone, gap_ms, farnsworth
    err,              \* the MorseError main reports, if any
    timing,           \* the Timing built so far (an Option)
    params,           \* new_with_sample_rate: tone, qrm, tone_shape, drift
    text,             \* the input text
    chIdx,            \* 1-based position of `for ch in text.chars()`
    morse_string,     \* text_to_morse: the String under construction
    tm_result,        \* text_to_morse: the returned Result
    sample_rate,      \* new_with_sample_rate parameter
    samples,          \* the sample buffer (Vec<f32>)
    code,             \* the code of the current character
    symIdx,           \* 1-based position of `for sym in code.chars()`
    i,                \* loop counter of the innermost running loop
    len,              \* bound of the innermost running loop
    is_first_symbol,  \* new_with_sample_rate local
    sample_time,      \* new_with_sample_rate local, in samples
    noise,            \* the SsbNoise instance
    noise_created,    \* number of SsbNoise::new calls
    noise_calls,      \* number of SsbNoise::next calls
    tone_calls,       \* number of ToneGenerator::next_sample calls
    tone_generator,   \* the ToneGenerator instance
    char_start,       \* samples.len() when the current character was fetched
    written,          \* save_audio_to_wav: the 16-bit samples written so far
    mode,             \* practice_mode parameter
    custom_text,      \* practice_mode parameter (an Option)
    content,          \* practice_mode: the word list
    current_index,    \* practice_mode local
    current_word,     \* practice_mode local
    indexed,          \* the index of the last `content[...]` expression
    key               \* practice_mode: the event read last

vars == <<pc, args, err, timing, params, text, chIdx, morse_string, tm_result,
          sample_rate, samples, code, symIdx, i, len, is_first_symbol,
          sample_time, noise, noise_created, noise_calls, tone_calls,
          tone_generator, char_start, written, mode, custom_text, content,
          current_index, current_word, indexed, key>>

cliVars == <<args, err>>
textVars == <<text, chIdx>>
morseVars == <<morse_string, tm_result>>
renderVars == <<sample_rate, samples, code, symIdx, i, len, is_first_symbol,
                sample_time, noise, noise_created, noise_calls, tone_calls,
                char_start>>
wavVars == <<written>>
practiceVars == <<mode, custom_text, content, current_index, current_word,
                  indexed, key>>
renderVars_but_tone_calls == <<sample_rate, samples, code, symIdx, i, len,
                               is_first_symbol, sample_time, noise,
                               noise_created, noise_calls, char_start>>

-----------------------------------------------------------------------------
(* Option and Result values *)

None == [some |-> FALSE]

Some(v) == [some |-> TRUE, val |-> v]

Ok(v) == [ok |-> TRUE, val |-> v]

Err(e) == [ok |-> FALSE, err |-> e]

-----------------------------------------------------------------------------
(* morse.rs: error values *)

InvalidCharacter(c) == [kind |-> "InvalidCharacter", ch |-> c]

InvalidSpeed(n) == [kind |-> "InvalidSpeed", a |-> n]

InvalidTone(n) == [kind |-> "InvalidTone", a |-> n]

InvalidFarnsworth(c, o) == [kind |-> "InvalidFarnsworth", a |-> c, b |-> o]

-----------------------------------------------------------------------------
(* morse.rs: the Morse table *)

MORSE ==
    "A" :> <<".", "-">> @@ "B" :> <<"-", ".", ".", ".">> @@ "C" :> <<"-", ".", "-", ".">> @@
    "D" :> <<"-", ".", ".">> @@ "E" :> <<".">> @@ "F" :> <<".", ".", "-", ".">> @@
    "G" :> <<"-", "-", ".">> @@ "H" :> <<".", ".", ".", ".">> @@ "I" :> <<".", ".">> @@
    "J" :> <<".", "-", "-", "-">> @@ "K" :> <<"-", ".", "-">> @@ "L" :> <<".", "-", ".", ".">> @@
    "M" :> <<"-", "-">> @@ "N" :> <<"-", ".">> @@ "O" :> <<"-", "-", "-">> @@
    "P" :> <<".", "-", "-", ".">> @@ "Q" :> <<"-", "-", ".", "-">> @@ "R" :> <<".", "-", ".">> @@
    "S" :> <<".", ".", ".">> @@ "T" :> <<"-">> @@ "U" :> <<".", ".", "-">> @@
    "V" :> <<".", ".", ".", "-">> @@ "W" :> <<".", "-", "-">> @@ "X" :> <<"-", ".", ".", "-">> @@
    "Y" :> <<"-", ".", "-", "-">> @@ "Z" :> <<"-", "-", ".", ".">> @@ "0" :> <<"-", "-", "-", "-", "-">> @@
    "1" :> <<".", "-", "-", "-", "-">> @@ "2" :> <<".", ".", "-", "-", "-">> @@ "3" :> <<".", ".", ".", "-", "-">> @@
    "4" :> <<".", ".", ".", ".", "-">> @@ "5" :> <<".", ".", ".", ".", ".">> @@ "6" :> <<"-", ".", ".", ".", ".">> @@
    "7" :> <<"-", "-", ".", ".", ".">> @@ "8" :> <<"-", "-", "-", ".", ".">> @@ "9" :> <<"-", "-", "-", "-", ".">> @@
    "." :> <<".", "-", ".", "-", ".", "-">> @@ "," :> <<"-", "-", ".", ".", "-", "-">> @@ "?" :> <<".", ".", "-", "-", ".", ".">> @@
    "/" :> <<"-", ".", ".", "-", ".">> @@ "&" :> <<".", "-", ".", ".", ".">> @@ "(" :> <<"-", ".", "-", "-", ".">> @@
    ")" :> <<"-", ".", "-", "-", ".", "-">> @@ "+" :> <<".", "-", ".", "-", ".">> @@ "=" :> <<"-", ".", ".", ".", "-">> @@
    "@" :> <<".", "-", "-", ".", "-", ".">> @@ ":" :> <<"-", "-", "-", ".", ".", ".">> @@ "'" :> <<".", "-", "-", "-", "-", ".">> @@
    "\"" :> <<".", "-", ".", ".", "-", ".">> @@ "!" :> <<"-", ".", "-", ".", "-", "-">> @@ "-" :> <<"-", ".", ".", ".", "-">> @@
    " " :> <<"/">> @@ "\n" :> <<>> @@ "\r" :> <<>>

Lower == <<"a", "b", "c", "d", "e", "f", "g", "h", "i", "j", "k", "l", "m",
           "n", "o", "p", "q", "r", "s", "t", "u", "v", "w", "x", "y", "z">>

Upper == <<"A", "B", "C", "D", "E", "F", "G", "H", "I", "J", "K", "L", "M",
           "N", "O", "P", "Q", "R", "S", "T", "U", "V", "W", "X", "Y", "Z">>

(* char::to_ascii_uppercase: a..z map to A..Z, every other char to itself *)
to_ascii_uppercase(c) ==
    IF \E k \in 1..26 : Lower[k] = c
    THEN Upper[CHOOSE k \in 1..26 : Lower[k] = c]
    ELSE c

(* MORSE.get(&up) *)
MorseGet(up) == IF up \in DOMAIN MORSE THEN Some(MORSE[up]) ELSE None

-----------------------------------------------------------------------------
(* morse.rs: Timing *)

MsPerUnitBase == 1200

(* Timing::new with the character gap of one unit instead of three *)
Timing_new_ShortChr(wpm, extra_gap_ms) ==
    LET unit == MsPerUnitBase \div wpm
        extra == extra_gap_ms
    IN  [dot |-> unit,
         dash |-> unit * 3,
         sym |-> unit,
         chr |-> unit + extra,
         wrd |-> unit * 7 + extra]

(* Timing::new *)
Timing_new(wpm, extra_gap_ms) ==
    LET unit == MsPerUnitBase \div wpm
        extra == extra_gap_ms
    IN  [dot |-> unit,
         dash |-> unit * 3,
         sym |-> unit,
         chr |-> unit * 3 + extra,
         wrd |-> unit * 7 + extra]

(* the Duration subtraction of Timing::new_farnsworth panics when it would
   be negative *)
FarnsworthUnderflows(char_speed, overall_speed) ==
    (MsPerUnitBase \div overall_speed) * 7 < (MsPerUnitBase \div char_speed) * (7 - 1)

(* Timing::new_farnsworth *)
Timing_new_farnsworth(char_speed, overall_speed, extra_gap_ms) ==
    LET char_unit == MsPerUnitBase \div char_speed
        overall_unit == MsPerUnitBase \div overall_speed
        extra == extra_gap_ms
        extended_gap == overall_unit * 7 - char_unit * (7 - 1)
    IN  [dot |-> char_unit,
         dash |-> char_unit * 3,
         sym |-> char_unit,
         chr |-> char_unit * 3 + extended_gap + extra,
         wrd |-> char_unit * 7 + extended_gap * 2 + extra]

-----------------------------------------------------------------------------
(* main.rs: validate_args and the start of main *)

MinWpm == 1

MaxWpm == 100

MinTone == 100

MaxTone == 3000

MinFarnsworth == 5

MaxFarnsworth == 40

(* validate_args without the comparison of the two speeds *)
validate_args_NoOrder(a) ==
    IF a.wpm < MinWpm \/ a.wpm > MaxWpm THEN Err(InvalidSpeed(a.wpm))
    ELSE IF a.tone < MinTone \/ a.tone > MaxTone THEN Err(InvalidTone(a.tone))
    ELSE IF a.farnsworth.some
            /\ (a.farnsworth.val < MinFarnsworth \/ a.farnsworth.val > MaxFarnsworth)
         THEN Err(InvalidSpeed(a.farnsworth.val))
    ELSE Ok(TRUE)

(* validate_args comparing the two speeds with < instead of <= *)
validate_args_Strict(a) ==
    IF a.wpm < MinWpm \/ a.wpm > MaxWpm THEN Err(InvalidSpeed(a.wpm))
    ELSE IF a.tone < MinTone \/ a.tone > MaxTone THEN Err(InvalidTone(a.tone))
    ELSE IF a.farnsworth.some
            /\ (a.farnsworth.val < MinFarnsworth \/ a.farnsworth.val > MaxFarnsworth)
         THEN Err(InvalidSpeed(a.farnsworth.val))
    ELSE IF a.farnsworth.some /\ a.farnsworth.val < a.wpm
         THEN Err(InvalidFarnsworth(a.farnsworth.val, a.wpm))
    ELSE Ok(TRUE)

validate_args(a) ==
    IF a.wpm < MinWpm \/ a.wpm > MaxWpm THEN Err(InvalidSpeed(a.wpm))
    ELSE IF a.tone < MinTone \/ a.tone > MaxTone THEN Err(InvalidTone(a.tone))
    ELSE IF a.farnsworth.some
            /\ (a.farnsworth.val < MinFarnsworth \/ a.farnsworth.val > MaxFarnsworth)
         THEN Err(InvalidSpeed(a.farnsworth.val))
    ELSE IF a.farnsworth.some /\ a.farnsworth.val <= a.wpm
         THEN Err(InvalidFarnsworth(a.farnsworth.val, a.wpm))
    ELSE Ok(TRUE)

-----------------------------------------------------------------------------
(* Bounds of the model *)

WpmLimit == 101            \* Args.wpm ranges over 0..WpmLimit

FarnsworthLimit == 41      \* Args.farnsworth over None and 0..FarnsworthLimit

MaxExtraGap == 2           \* Args.gap_ms ranges over 0..MaxExtraGap

MaxTextLen == 3            \* texts have at most MaxTextLen characters

ToneArgs == {MinTone - 1, MinTone, MaxTone, MaxTone + 1}

(* the characters texts are made of: a lower-case letter with a two-symbol
   code, a letter with a one-symbol code, the space, a character with an
   empty code and a character without a MORSE entry *)
Alphabet == {"a", "E", " ", "\n", "#"}

Texts == UNION {[1..n -> Alphabet] : n \in 0..MaxTextLen}

-----------------------------------------------------------------------------
(* Values of the variables a specification does not use *)

NoTone == [sample_rate |-> 0, base_frequency |-> 0, current_frequency |-> 0,
           phase |-> 0, shape |-> "Sine", drift_percentage |-> None,
           symbol_start_time |-> 0]

NoNoise == [amplitude |-> 0, phase |-> 0]

NoParams == [tone |-> 0, qrm |-> 0, tone_shape |-> "Sine",
             drift_percentage |-> None]

CliIdle == args = [wpm |-> 0, tone |-> 0, gap_ms |-> 0, farnsworth |-> None]
           /\ err = None

TextIdle == text = <<>> /\ chIdx = 0

MorseIdle == morse_string = <<>> /\ tm_result = None

WavIdle == written = <<>>

PracticeIdle ==
    /\ mode = "RandomWords" /\ custom_text = None /\ content = <<>>
    /\ current_index = 0 /\ current_word = <<>> /\ indexed = None
    /\ key = "None"

RenderIdle ==
    /\ sample_rate = 0 /\ samples = <<>> /\ code = <<>> /\ symIdx = 0
    /\ i = 0 /\ len = 0 /\ is_first_symbol = FALSE /\ sample_time = 0
    /\ noise = NoNoise /\ noise_created = 0 /\ noise_calls = 0
    /\ tone_calls = 0 /\ char_start = 0

-----------------------------------------------------------------------------
(* main.rs: main, up to the construction of the Timing *)

InitCli ==
    /\ pc = "main"
    /\ args \in [wpm : 0..WpmLimit,
                 tone : ToneArgs,
                 gap_ms : 0..MaxExtraGap,
                 farnsworth : {None} \cup {Some(f) : f \in 0..FarnsworthLimit}]
    /\ err = None
    /\ timing = None
    /\ params = NoParams
    /\ TextIdle /\ MorseIdle /\ RenderIdle
    /\ tone_generator = NoTone
    /\ WavIdle /\ PracticeIdle

(* main.rs 88-91: a rejected configuration is reported and the process
   exits with status 1 *)
MainValidate ==
    /\ pc = "main"
    /\ LET r == validate_args(args)
       IN  IF r.ok
           THEN pc' = "validated" /\ err' = err
           ELSE pc' = "exit_1" /\ err' = Some(r.err)
    /\ UNCHANGED <<args, timing, params, tone_generator>>
    /\ UNCHANGED <<textVars, morseVars, renderVars>>
    /\ UNCHANGED <<wavVars, practiceVars>>

(* main.rs 93-97; a division by zero or a negative Duration panics *)
MainTiming ==
    /\ pc = "validated"
    /\ IF args.farnsworth.some
       THEN IF args.farnsworth.val = 0 \/ args.wpm = 0
               \/ FarnsworthUnderflows(args.farnsworth.val, args.wpm)
            THEN pc' = "panic" /\ timing' = timing
            ELSE /\ pc' = "timing_built"
                 /\ timing' = Some(Timing_new_farnsworth(args.farnsworth.val,
                                                         args.wpm, args.gap_ms))
       ELSE IF args.wpm = 0
            THEN pc' = "panic" /\ timing' = timing
            ELSE /\ pc' = "timing_built"
                 /\ timing' = Some(Timing_new(args.wpm, args.gap_ms))
    /\ UNCHANGED <<args, err, params, tone_generator>>
    /\ UNCHANGED <<textVars, morseVars, renderVars>>
    /\ UNCHANGED <<wavVars, practiceVars>>

NextCli == MainValidate \/ MainTiming

SpecCli == InitCli /\ [][NextCli]_vars

-----------------------------------------------------------------------------
(* morse.rs: text_to_morse *)

IsWhitespace(c) == c \in {" ", "\n", "\r", "\t"}

RECURSIVE trim_start(_)
trim_start(s) ==
    IF s # <<>> /\ IsWhitespace(Head(s)) THEN trim_start(Tail(s)) ELSE s

RECURSIVE trim_end(_)
trim_end(s) ==
    IF s # <<>> /\ IsWhitespace(s[Len(s)])
    THEN trim_end(SubSeq(s, 1, Len(s) - 1))
    ELSE s

(* str::trim *)
trim(s) == trim_end(trim_start(s))

(* the push without the test for an empty code *)
PushCode_Always(ms, c) == ms \o c \o <<" ">>

(* morse.rs 103-106: a non-empty code is pushed, followed by a space *)
PushCode(ms, c) == IF c # <<>> THEN ms \o c \o <<" ">> ELSE ms

InitMorse ==
    /\ pc = "tm_loop"
    /\ text \in Texts
    /\ chIdx = 1
    /\ morse_string = <<>>
    /\ tm_result = None
    /\ CliIdle /\ timing = None /\ params = NoParams /\ RenderIdle
    /\ tone_generator = NoTone
    /\ WavIdle /\ PracticeIdle

(* one iteration of `for ch in text.chars()` *)
TmStep ==
    /\ pc = "tm_loop"
    /\ chIdx <= Len(text)
    /\ LET ch == text[chIdx]
           up == to_ascii_uppercase(ch)
           g == MorseGet(up)
       IN  IF g.some
           THEN /\ morse_string' = PushCode(morse_string, g.val)
                /\ chIdx' = chIdx + 1
                /\ UNCHANGED <<pc, tm_result>>
           ELSE /\ tm_result' = Err(InvalidCharacter(ch))
                /\ pc' = "tm_return"
                /\ UNCHANGED <<morse_string, chIdx>>
    /\ UNCHANGED <<text, cliVars, timing, params, renderVars, tone_generator>>
    /\ UNCHANGED <<wavVars, practiceVars>>

(* morse.rs 112 *)
TmFinish ==
    /\ pc = "tm_loop"
    /\ chIdx > Len(text)
    /\ tm_result' = Ok(trim(morse_string))
    /\ pc' = "tm_return"
    /\ UNCHANGED <<text, chIdx, morse_string, cliVars, timing, params, renderVars,
                   tone_generator>>
    /\ UNCHANGED <<wavVars, practiceVars>>

NextMorse == TmStep \/ TmFinish

SpecMorse == InitMorse /\ [][NextMorse]_vars

-----------------------------------------------------------------------------
(* audio.rs: ToneGenerator *)

(* ToneGenerator::new *)
ToneGenerator_new(frequency, rate, shape, drift_percentage) ==
    [sample_rate |-> rate,
     base_frequency |-> frequency,
     current_frequency |-> frequency,
     phase |-> 0,
     shape |-> shape,
     drift_percentage |-> drift_percentage,
     symbol_start_time |-> 0]

(* ToneGenerator::start_symbol *)
start_symbol(tg, t) ==
    LET d == IF tg.drift_percentage.some
             THEN [tg EXCEPT !.symbol_start_time = t,
                             !.current_frequency = tg.base_frequency]
             ELSE tg
    IN  [d EXCEPT !.phase = 0]

(* audio.rs 52-61: base_frequency * (target + (1 - target) * exp(-1.2 * dt))
   with target = drift_pct / 100.  The product is the base frequency when
   the target is 100 % or when dt = 0; for every other input it is an
   irrational multiple of the base frequency, which this model does not
   represent: the drift percentages of the model are those of
   DriftPercentages. *)
DriftedFrequency(tg, t) ==
    CASE tg.drift_percentage.val = 100 -> tg.base_frequency
      [] t = tg.symbol_start_time -> tg.base_frequency

(* audio.rs 64-68: the phase advances by the increment and is wrapped once *)
WrapPhase(phase, increment, rate) ==
    IF phase + increment > rate THEN phase + increment - rate
    ELSE phase + increment

(* ToneGenerator::next_sample, the state change; the returned amplitude is
   not modelled *)
next_sample(tg, t) ==
    LET f == IF tg.drift_percentage.some THEN DriftedFrequency(tg, t)
             ELSE tg.current_frequency
    IN  [tg EXCEPT !.current_frequency = f,
                   !.phase = WrapPhase(tg.phase, f, tg.sample_rate)]

-----------------------------------------------------------------------------
(* audio.rs: SsbNoise *)

(* SsbNoise::new: the amplitude in thousandths; the filter state i, q is
   driven by random numbers and is not modelled *)
SsbNoise_new(qrm_level) ==
    LET table == <<10, 30, 60, 100, 180, 300, 500, 800, 1200, 2000>>
    IN  [amplitude |-> IF qrm_level \in 0..9 THEN table[qrm_level + 1] ELSE 10,
         phase |-> 0]

NoiseCarrier == 1000

(* SsbNoise::next: the carrier phase advances and is never wrapped *)
SsbNoise_next(n, rate) == [n EXCEPT !.phase = @ + NoiseCarrier]

-----------------------------------------------------------------------------
(* audio.rs: MorseAudio::new_with_sample_rate *)

MsPerSecond == 1000

(* (sample_rate as f64 * dur.as_secs_f64()) as usize *)
SamplesOf(rate, dur_ms) == (rate * dur_ms) \div MsPerSecond

(* audio.rs 155-156 and 176-177: timing.sym.mul_f32(0.15) and mul_f32(0.25)
   as sample counts *)
AttackSamples(rate, t) == (rate * t.sym * 15) \div (100 * MsPerSecond)

ReleaseSamples(rate, t) == (rate * t.sym * 25) \div (100 * MsPerSecond)

(* audio.rs 169-175 *)
SymbolLen(rate, t, sym) ==
    SamplesOf(rate, IF sym = "." THEN t.dot ELSE t.dash)

(* audio.rs 206 *)
SymGapLen(rate, t) == SamplesOf(rate, t.sym)

(* the character space without the subtraction of the symbol space *)
CharGapLen_Whole(rate, t) == SamplesOf(rate, t.chr)

(* audio.rs 214 *)
CharGapLen(rate, t) == SamplesOf(rate, t.chr - t.sym)

(* audio.rs 221 *)
WordGapLen(rate, t) == SamplesOf(rate, t.wrd - t.chr)

(* the word-space branch taken for every character without an entry *)
IsWordSpace_Any(up) == TRUE

(* audio.rs 219: the test that selects the word-space branch for a
   character without a MORSE entry *)
IsWordSpace(up) == up = " "

(* the envelope with the factor 0.1 on sample 0 of every symbol *)
Envelope_EveryStart(k, n, attack, release, first) ==
    LET a0 == <<1, 1>>
        a1 == IF k < attack THEN <<k, attack>> ELSE a0
        a2 == IF k >= n - release THEN <<n - k, release>> ELSE a1
    IN  IF k = 0 THEN <<a2[1], a2[2] * 10>> ELSE a2

(* audio.rs 184-195: the envelope multiplier as a fraction <<num, den>> *)
Envelope(k, n, attack, release, first) ==
    LET a0 == <<1, 1>>
        a1 == IF k < attack THEN <<k, attack>> ELSE a0
        a2 == IF k >= n - release THEN <<n - k, release>> ELSE a1
    IN  IF first /\ k = 0 THEN <<a2[1], a2[2] * 10>> ELSE a2

ToneEntry(amp) == [tone |-> TRUE, noise |-> TRUE, amp |-> amp]

GapEntry == [tone |-> FALSE, noise |-> TRUE, amp |-> <<0, 1>>]

(* the inputs of the rendering model *)
RenderSampleRates == {100, 125}

RenderTimings == {Timing_new(100, 0), Timing_new(20, 10),
                  Timing_new_farnsworth(40, 30, 0)}

RenderTones == {25}

QrmLevels == {3}

ToneShapes == {"Sine"}

DriftPercentages == {None, Some(100)}

GapPcs == {"symgap", "chargap", "wordgap"}

InitRender ==
    /\ pc = "entry"
    /\ text \in Texts
    /\ sample_rate \in RenderSampleRates
    /\ timing \in {Some(t) : t \in RenderTimings}
    /\ params \in [tone : RenderTones, qrm : QrmLevels,
                   tone_shape : ToneShapes,
                   drift_percentage : DriftPercentages]
    /\ chIdx = 0
    /\ samples = <<>> /\ code = <<>> /\ symIdx = 0
    /\ i = 0 /\ len = 0 /\ is_first_symbol = FALSE /\ sample_time = 0
    /\ noise = NoNoise /\ noise_created = 0 /\ noise_calls = 0
    /\ tone_calls = 0 /\ char_start = 0
    /\ tone_generator = NoTone
    /\ CliIdle /\ MorseIdle
    /\ WavIdle /\ PracticeIdle

(* audio.rs 151-162: the locals of new_with_sample_rate *)
RenderBegin ==
    /\ pc = "entry"
    /\ tone_generator' = ToneGenerator_new(params.tone, sample_rate,
                                           params.tone_shape,
                                           params.drift_percentage)
    /\ samples' = <<>>
    /\ noise' = SsbNoise_new(params.qrm)
    /\ noise_created' = noise_created + 1
    /\ sample_time' = 0
    /\ is_first_symbol' = TRUE
    /\ chIdx' = 1
    /\ pc' = "char"
    /\ UNCHANGED <<text, sample_rate, timing, params, code, symIdx, i, len,
                   noise_calls, tone_calls, char_start, cliVars, morseVars>>
    /\ UNCHANGED <<wavVars, practiceVars>>

(* audio.rs 165-167 and 219-226: the next character is fetched and looked
   up; a character without an entry is passed over unless it is a space *)
NextChar ==
    /\ pc = "char"
    /\ chIdx <= Len(text)
    /\ LET up == to_ascii_uppercase(text[chIdx])
           g == MorseGet(up)
       IN  IF g.some
           THEN /\ code' = g.val
                /\ symIdx' = 1
                /\ pc' = "sym"
                /\ UNCHANGED <<chIdx, i, len>>
           ELSE IF IsWordSpace(up)
           THEN IF timing.val.wrd < timing.val.chr
                THEN pc' = "panic" /\ UNCHANGED <<chIdx, code, symIdx, i, len>>
                ELSE /\ len' = WordGapLen(sample_rate, timing.val)
                     /\ i' = 0
                     /\ pc' = "wordgap"
                     /\ UNCHANGED <<chIdx, code, symIdx>>
           ELSE /\ chIdx' = chIdx + 1
                /\ UNCHANGED <<pc, code, symIdx, i, len>>
    /\ char_start' = Len(samples)
    /\ UNCHANGED <<text, sample_rate, timing, params, samples, is_first_symbol,
                   sample_time, noise, noise_created, noise_calls, tone_calls,
                   tone_generator, cliVars, morseVars>>
    /\ UNCHANGED <<wavVars, practiceVars>>

(* audio.rs 168-180: the next symbol of the code; anything but a dot or a
   dash is passed over, a dot or a dash starts a symbol *)
NextSym ==
    /\ pc = "sym"
    /\ symIdx <= Len(code)
    /\ LET sym == code[symIdx]
       IN  IF sym \notin {".", "-"}
           THEN /\ symIdx' = symIdx + 1
                /\ UNCHANGED <<pc, i, len, tone_generator>>
           ELSE /\ len' = SymbolLen(sample_rate, timing.val, sym)
                /\ i' = 0
                /\ tone_generator' = start_symbol(tone_generator, sample_time)
                /\ pc' = "tone"
                /\ UNCHANGED symIdx
    /\ UNCHANGED <<text, chIdx, sample_rate, timing, params, samples, code,
                   is_first_symbol, sample_time, noise, noise_created,
                   noise_calls, tone_calls, char_start, cliVars, morseVars>>
    /\ UNCHANGED <<wavVars, practiceVars>>

(* audio.rs 183-201: one iteration of `for i in 0..len`; len - release is an
   unsigned subtraction *)
ToneSample ==
    /\ pc = "tone"
    /\ i < len
    /\ LET attack == AttackSamples(sample_rate, timing.val)
           release == ReleaseSamples(sample_rate, timing.val)
       IN  IF release > len
           THEN /\ pc' = "panic"
                /\ UNCHANGED <<samples, tone_generator, tone_calls, noise,
                               noise_calls, sample_time, i>>
           ELSE /\ samples' = Append(samples,
                        ToneEntry(Envelope(i, len, attack, release,
                                           is_first_symbol)))
                /\ tone_generator' = next_sample(tone_generator, sample_time)
                /\ tone_calls' = tone_calls + 1
                /\ noise' = SsbNoise_next(noise, sample_rate)
                /\ noise_calls' = noise_calls + 1
                /\ sample_time' = sample_time + 1
                /\ i' = i + 1
                /\ UNCHANGED pc
    /\ UNCHANGED <<text, chIdx, sample_rate, timing, params, code, symIdx, len,
                   is_first_symbol, noise_created, char_start, cliVars,
                   morseVars>>
    /\ UNCHANGED <<wavVars, practiceVars>>

(* audio.rs 203-206: the symbol is over, the symbol space begins *)
ToneEnd ==
    /\ pc = "tone"
    /\ i >= len
    /\ is_first_symbol' = FALSE
    /\ len' = SymGapLen(sample_rate, timing.val)
    /\ i' = 0
    /\ pc' = "symgap"
    /\ UNCHANGED <<text, chIdx, sample_rate, timing, params, samples, code,
                   symIdx, sample_time, noise, noise_created, noise_calls,
                   tone_calls, tone_generator, char_start, cliVars, morseVars>>
    /\ UNCHANGED <<wavVars, practiceVars>>

(* audio.rs 213-214: the symbols of the character are exhausted, the
   character space begins; chr - sym is a Duration subtraction *)
CharGapBegin ==
    /\ pc = "sym"
    /\ symIdx > Len(code)
    /\ IF timing.val.chr < timing.val.sym
       THEN pc' = "panic" /\ UNCHANGED <<i, len>>
       ELSE /\ len' = CharGapLen(sample_rate, timing.val)
            /\ i' = 0
            /\ pc' = "chargap"
    /\ UNCHANGED <<text, chIdx, sample_rate, timing, params, samples, code,
                   symIdx, is_first_symbol, sample_time, noise, noise_created,
                   noise_calls, tone_calls, tone_generator, char_start,
                   cliVars, morseVars>>
    /\ UNCHANGED <<wavVars, practiceVars>>

(* a gap that pushes silence without calling the noise generator *)
GapSample_Silent ==
    /\ pc \in GapPcs
    /\ i < len
    /\ samples' = Append(samples, GapEntry)
    /\ sample_time' = sample_time + 1
    /\ i' = i + 1
    /\ UNCHANGED <<pc, text, chIdx, sample_rate, timing, params, code, symIdx,
                   len, is_first_symbol, noise, noise_created, noise_calls,
                   tone_calls, tone_generator, char_start, cliVars, morseVars>>
    /\ UNCHANGED <<wavVars, practiceVars>>

(* audio.rs 207-210, 215-218, 222-225: one iteration of a `for _ in 0..off`
   loop *)
GapSample ==
    /\ pc \in GapPcs
    /\ i < len
    /\ samples' = Append(samples, GapEntry)
    /\ noise' = SsbNoise_next(noise, sample_rate)
    /\ noise_calls' = noise_calls + 1
    /\ sample_time' = sample_time + 1
    /\ i' = i + 1
    /\ UNCHANGED <<pc, text, chIdx, sample_rate, timing, params, code, symIdx,
                   len, is_first_symbol, noise_created, tone_calls,
                   tone_generator, char_start, cliVars, morseVars>>
    /\ UNCHANGED <<wavVars, practiceVars>>

(* the end of a `for _ in 0..off` loop: after the symbol space the next
   symbol, after the character or word space the next character *)
GapEnd ==
    /\ pc \in GapPcs
    /\ i >= len
    /\ IF pc = "symgap"
       THEN symIdx' = symIdx + 1 /\ pc' = "sym" /\ UNCHANGED chIdx
       ELSE chIdx' = chIdx + 1 /\ pc' = "char" /\ UNCHANGED symIdx
    /\ UNCHANGED <<text, sample_rate, timing, params, samples, code, i, len,
                   is_first_symbol, sample_time, noise, noise_created,
                   noise_calls, tone_calls, tone_generator, char_start,
                   cliVars, morseVars>>
    /\ UNCHANGED <<wavVars, practiceVars>>

(* audio.rs 229-233 *)
RenderReturn ==
    /\ pc = "char"
    /\ chIdx > Len(text)
    /\ pc' = "done"
    /\ UNCHANGED <<text, chIdx, sample_rate, timing, params, samples, code,
                   symIdx, i, len, is_first_symbol, sample_time, noise,
                   noise_created, noise_calls, tone_calls, tone_generator,
                   char_start, cliVars, morseVars>>
    /\ UNCHANGED <<wavVars, practiceVars>>

NextRender ==
    \/ RenderBegin
    \/ NextChar
    \/ NextSym
    \/ ToneSample
    \/ ToneEnd
    \/ CharGapBegin
    \/ GapSample
    \/ GapEnd
    \/ RenderReturn

SpecRender == InitRender /\ [][NextRender]_vars

-----------------------------------------------------------------------------
(* audio.rs: ToneGenerator under arbitrary calls *)

ToneRate == 8              \* the sample rate of the oscillator model

MaxToneTime == 2           \* sample_time arguments range over 0..MaxToneTime

InitTone ==
    /\ pc = "tone_idle"
    /\ \E f \in 1..(ToneRate - 1), s \in ToneShapes, d \in DriftPercentages :
          tone_generator = ToneGenerator_new(f, ToneRate, s, d)
    /\ tone_calls = 0
    /\ timing = None
    /\ params = NoParams
    /\ CliIdle /\ TextIdle /\ MorseIdle
    /\ sample_rate = 0 /\ samples = <<>> /\ code = <<>> /\ symIdx = 0
    /\ i = 0 /\ len = 0 /\ is_first_symbol = FALSE /\ sample_time = 0
    /\ noise = NoNoise /\ noise_created = 0 /\ noise_calls = 0
    /\ char_start = 0
    /\ WavIdle /\ PracticeIdle

(* a call of ToneGenerator::start_symbol *)
TgStartSymbol ==
    /\ pc \in {"tone_idle", "tone_sounding"}
    /\ \E t \in 0..MaxToneTime :
          tone_generator' = start_symbol(tone_generator, t)
    /\ pc' = "tone_sounding"
    /\ UNCHANGED <<tone_calls, timing, params, cliVars, textVars, morseVars,
                   renderVars_but_tone_calls>>
    /\ UNCHANGED <<wavVars, practiceVars>>

(* a call of ToneGenerator::next_sample *)
TgNextSample ==
    /\ pc \in {"tone_idle", "tone_sounding"}
    /\ \E t \in 0..MaxToneTime :
          tone_generator' = next_sample(tone_generator, t)
    /\ UNCHANGED <<pc, tone_calls, timing, params, cliVars, textVars, morseVars,
                   renderVars_but_tone_calls>>
    /\ UNCHANGED <<wavVars, practiceVars>>

NextTone == TgStartSymbol \/ TgNextSample

SpecTone == InitTone /\ [][NextTone]_vars

-----------------------------------------------------------------------------
(* Properties of SpecRender: the samples a character appends *)

(* the character whose processing has just ended *)
PrevChar == to_ascii_uppercase(text[chIdx - 1])

(* a character has just been processed: the loop is back at its head *)
CharEnded == pc = "char" /\ chIdx > 1

(* the samples the character appended *)
Appended == SubSeq(samples, char_start + 1, Len(samples))

AllGaps(s) == \A k \in 1..Len(s) : s[k] = GapEntry

(* C1: every space of the text appends exactly
   floor(sample_rate * (wrd - chr)) noise-only samples, the inter-word gap,
   and nothing else. *)
C1_SpaceAppendsWordGap ==
    (CharEnded /\ PrevChar = " ")
        => /\ Len(Appended) = SamplesOf(sample_rate, timing.val.wrd - timing.val.chr)
           /\ AllGaps(Appended)

(* C2: a character with an empty code (newline, carriage return) appends no
   samples: the inter-character gap follows only a non-empty code. *)
C2_EmptyCodeAppendsNothing ==
    (CharEnded /\ PrevChar \in DOMAIN MORSE /\ MORSE[PrevChar] = <<>>)
        => Len(samples) = char_start

(* C3 as stated: the buffer rendered for "E" has dot_samples + sym_samples
   entries. *)
C3_LenE_Original ==
    (pc = "done" /\ text = <<"E">>)
        => Len(samples) = SamplesOf(sample_rate, timing.val.dot)
                          + SamplesOf(sample_rate, timing.val.sym)

(* C3 amended: the buffer rendered for "E" has dot_samples + sym_samples +
   floor(sample_rate * (chr - sym)) entries: the dot, the symbol space and
   the character space that follows every character. *)
C3_LenE ==
    (pc = "done" /\ text = <<"E">>)
        => Len(samples) = SamplesOf(sample_rate, timing.val.dot)
                          + SamplesOf(sample_rate, timing.val.sym)
                          + SamplesOf(sample_rate,
                                      timing.val.chr - timing.val.sym)

C3_Witness ==
    /\ pc = "done" /\ text = <<"E">>
    /\ Len(samples) > SamplesOf(sample_rate, timing.val.dot)
                      + SamplesOf(sample_rate, timing.val.sym)

-----------------------------------------------------------------------------
(* Properties of SpecCli *)

(* C4 as stated: every Timing built for an accepted configuration has
   dash = 3 * dot and wrd > chr > dash. *)
C4_TimingOrder_Original ==
    pc = "timing_built"
        => /\ timing.val.dash = 3 * timing.val.dot
           /\ timing.val.wrd > timing.val.chr
           /\ timing.val.chr > timing.val.dash

(* C4 amended: every Timing built for an accepted configuration has
   dash = 3 * dot and wrd > chr >= dash; chr > dash exactly when the extra
   gap is positive or the Timing is a Farnsworth one. *)
C4_TimingOrder ==
    pc = "timing_built"
        => /\ timing.val.dash = 3 * timing.val.dot
           /\ timing.val.wrd > timing.val.chr
           /\ timing.val.chr >= timing.val.dash
           /\ (timing.val.chr > timing.val.dash
                 <=> (args.farnsworth.some \/ args.gap_ms > 0))

C4_Witness ==
    /\ pc = "timing_built"
    /\ ~args.farnsworth.some /\ args.gap_ms = 0 /\ args.wpm = MaxWpm
    /\ timing.val.chr = timing.val.dash

(* the Farnsworth character speed is not greater than the overall speed *)
FarnsworthNotFaster ==
    args.farnsworth.some /\ args.farnsworth.val <= args.wpm

(* C5 as stated: a Farnsworth pair whose character speed is not greater than
   the overall speed is rejected with InvalidFarnsworth, and no Timing is
   built for it. *)
C5_Rejected_Original ==
    (FarnsworthNotFaster /\ pc # "main")
        => /\ pc = "exit_1"
           /\ err = Some(InvalidFarnsworth(args.farnsworth.val, args.wpm))
           /\ timing = None

(* the range checks that validate_args makes before it compares the two
   speeds all pass *)
RangesOk ==
    /\ args.wpm >= MinWpm /\ args.wpm <= MaxWpm
    /\ args.tone >= MinTone /\ args.tone <= MaxTone
    /\ args.farnsworth.val >= MinFarnsworth
    /\ args.farnsworth.val <= MaxFarnsworth

(* C5 amended: such a pair is always rejected and no Timing is built for it;
   the error is InvalidFarnsworth when wpm, tone and the character speed are
   in their ranges, and otherwise the InvalidSpeed or InvalidTone of the
   range check that fails first. *)
C5_Rejected ==
    (FarnsworthNotFaster /\ pc # "main")
        => /\ pc = "exit_1"
           /\ timing = None
           /\ err.some
           /\ IF RangesOk
              THEN err.val = InvalidFarnsworth(args.farnsworth.val, args.wpm)
              ELSE err.val.kind \in {"InvalidSpeed", "InvalidTone"}

C5_Witness ==
    /\ pc = "exit_1"
    /\ args.farnsworth.some /\ args.farnsworth.val = args.wpm
    /\ err = Some(InvalidFarnsworth(args.wpm, args.wpm))
    /\ timing = None

(* C6: for an accepted Farnsworth pair and no extra gap the word PARIS
   (31 units of elements and symbol spaces, 4 character gaps, 1 word gap)
   lasts 50 units of the overall speed. *)
C6_ParisAtOverallSpeed ==
    (pc = "timing_built" /\ args.farnsworth.some /\ args.gap_ms = 0)
        => 31 * timing.val.dot + 4 * timing.val.chr + timing.val.wrd
           = 50 * (MsPerUnitBase \div args.wpm)

-----------------------------------------------------------------------------
(* Properties of SpecMorse *)

IsMapped(c) == to_ascii_uppercase(c) \in DOMAIN MORSE

IsNonEmpty(c) == c # <<>>

(* the non-empty codes of the characters of a text, in text order *)
CodesOf(t) ==
    SelectSeq([k \in 1..Len(t) |-> MORSE[to_ascii_uppercase(t[k])]], IsNonEmpty)

RECURSIVE JoinWithSpaces(_)
JoinWithSpaces(cs) ==
    IF cs = <<>> THEN <<>>
    ELSE IF Len(cs) = 1 THEN cs[1]
    ELSE cs[1] \o <<" ">> \o JoinWithSpaces(Tail(cs))

FirstUnmapped(t) ==
    t[CHOOSE k \in 1..Len(t) :
         ~IsMapped(t[k]) /\ \A j \in 1..(k - 1) : IsMapped(t[j])]

(* C7: text_to_morse returns Ok exactly when every character has a MORSE
   entry (case-insensitively); the value is then the non-empty codes in text
   order joined by single spaces, without a leading or trailing space;
   otherwise it returns InvalidCharacter of the first unmapped character. *)
C7_TextToMorse ==
    pc = "tm_return"
        => IF \A k \in 1..Len(text) : IsMapped(text[k])
           THEN /\ tm_result = Ok(JoinWithSpaces(CodesOf(text)))
                /\ tm_result.val # <<>>
                     => /\ Head(tm_result.val) # " "
                        /\ tm_result.val[Len(tm_result.val)] # " "
           ELSE tm_result = Err(InvalidCharacter(FirstUnmapped(text)))

C7_Witness ==
    /\ pc = "tm_return"
    /\ Len(text) >= 3 /\ text[1] = "a" /\ text[2] = "\n" /\ text[3] = "E"
    /\ tm_result.ok
    /\ Len(tm_result.val) = 4

-----------------------------------------------------------------------------
(* Properties of SpecRender: unmapped characters, the noise generator *)

(* the number of samples of one character with an entry, from its code *)
RECURSIVE CodeLen(_, _, _)
CodeLen(c, rate, t) ==
    IF c = <<>> THEN 0
    ELSE (IF Head(c) = "." THEN SamplesOf(rate, t.dot) + SamplesOf(rate, t.sym)
          ELSE IF Head(c) = "-"
          THEN SamplesOf(rate, t.dash) + SamplesOf(rate, t.sym)
          ELSE 0)
         + CodeLen(Tail(c), rate, t)

(* the number of samples of a text all of whose characters have an entry *)
RECURSIVE MappedTextLen(_, _, _)
MappedTextLen(s, rate, t) ==
    IF s = <<>> THEN 0
    ELSE CodeLen(MORSE[to_ascii_uppercase(Head(s))], rate, t)
         + SamplesOf(rate, t.chr - t.sym)
         + MappedTextLen(Tail(s), rate, t)

(* C8: rendering never fails on a character without a MORSE entry and adds
   no samples for it: the buffer has the length of the rendering of the text
   without its unmapped characters, and a text without mapped characters
   renders to the empty buffer. *)
C8_UnmappedSkipped ==
    /\ pc # "panic"
    /\ (CharEnded /\ ~IsMapped(text[chIdx - 1])) => Len(samples) = char_start
    /\ pc = "done"
         => /\ Len(samples) = MappedTextLen(SelectSeq(text, IsMapped),
                                            sample_rate, timing.val)
            /\ (\A k \in 1..Len(text) : ~IsMapped(text[k])) => samples = <<>>

C8_Witness ==
    /\ pc = "done"
    /\ \E k \in 1..Len(text) : ~IsMapped(text[k])
    /\ \E k \in 1..Len(text) : IsMapped(text[k])
    /\ Len(samples) > 0

(* which entries of the buffer lie in a dot or dash, from the code of one
   character: TRUE for a sample of a symbol, FALSE for a sample of a gap *)
RECURSIVE CodeKinds(_, _, _)
CodeKinds(c, rate, t) ==
    IF c = <<>> THEN <<>>
    ELSE (IF Head(c) \in {".", "-"}
          THEN [k \in 1..SamplesOf(rate, IF Head(c) = "." THEN t.dot ELSE t.dash)
                   |-> TRUE]
               \o [k \in 1..SamplesOf(rate, t.sym) |-> FALSE]
          ELSE <<>>)
         \o CodeKinds(Tail(c), rate, t)

RECURSIVE TextKinds(_, _, _)
TextKinds(s, rate, t) ==
    IF s = <<>> THEN <<>>
    ELSE (IF IsMapped(Head(s))
          THEN CodeKinds(MORSE[to_ascii_uppercase(Head(s))], rate, t)
               \o [k \in 1..SamplesOf(rate, t.chr - t.sym) |-> FALSE]
          ELSE <<>>)
         \o TextKinds(Tail(s), rate, t)

(* C10: one SsbNoise is created per render and never reset, SsbNoise::next
   is called exactly once per sample of the buffer at every point of the
   render, and ToneGenerator::next_sample exactly for the samples that lie
   in a dot or dash. *)
C10_NoisePerSample ==
    pc # "entry"
        => /\ noise_created = 1
           /\ noise_calls = Len(samples)
           /\ noise.phase = NoiseCarrier * Len(samples)
           /\ LET e == TextKinds(text, sample_rate, timing.val)
              IN  /\ Len(samples) <= Len(e)
                  /\ \A k \in 1..Len(samples) :
                        samples[k].noise /\ samples[k].tone = e[k]
                  /\ tone_calls = Cardinality({k \in 1..Len(samples) : e[k]})

C10_Witness ==
    /\ pc = "done"
    /\ tone_calls > 0
    /\ noise_calls > tone_calls
    /\ \E k \in 1..Len(text) : text[k] = " "

-----------------------------------------------------------------------------
(* Properties of SpecTone *)

(* C9: with 0 < current_frequency < sample_rate the phase stays in
   [0, 2*pi) under every sequence of start_symbol and next_sample calls
   (2*pi is sample_rate units of phase). *)
C9_PhaseInRange ==
    (tone_generator.current_frequency > 0
       /\ tone_generator.current_frequency < tone_generator.sample_rate)
        => /\ tone_generator.phase >= 0
           /\ tone_generator.phase < tone_generator.sample_rate


-----------------------------------------------------------------------------
(* audio.rs: save_audio_to_wav.  A sample value s is the fraction
   n / SampleDen; the buffer is drawn from WavSamples because the rendering
   model does not compute amplitudes. *)

I16Min == -32768

I16Max == 32767

WavSampleRate == 8000

SampleDen == 32768         \* resolution of the sample values

WavGrid == 8               \* sample values k / WavGrid for k in -2*WavGrid..2*WavGrid

MaxWavLen == 2             \* buffers have at most MaxWavLen samples

(* the grid values and the values next to 0, 1 and -1 *)
WavSamples ==
    {(k * SampleDen) \div WavGrid : k \in (-2 * WavGrid)..(2 * WavGrid)}
    \cup {1, -1, SampleDen - 1, 1 - SampleDen, SampleDen + 1, -(SampleDen + 1)}

(* the conversion of a float to an integer drops the fraction *)
TruncDiv(a, b) == IF a >= 0 THEN a \div b ELSE -((-a) \div b)

(* f32::clamp, on numerators over SampleDen *)
Clamp(x, lo, hi) == IF x < lo THEN lo ELSE IF x > hi THEN hi ELSE x

(* `as i16` of a float saturates at the bounds of i16 *)
CastI16(v) == Clamp(v, I16Min, I16Max)

(* the conversion without the clamp and with a wrapping cast *)
SampleToI16_Wrap(n) ==
    ((TruncDiv(n * I16Max, SampleDen) - I16Min) % (I16Max - I16Min + 1)) + I16Min

(* audio.rs 327 *)
SampleToI16(n) ==
    CastI16(TruncDiv(Clamp(n * I16Max, I16Min * SampleDen, I16Max * SampleDen),
                     SampleDen))

InitWav ==
    /\ pc = "wav_create"
    /\ samples \in UNION {[1..n -> WavSamples] : n \in 0..MaxWavLen}
    /\ sample_rate = WavSampleRate
    /\ written = <<>>
    /\ i = 0
    /\ code = <<>> /\ symIdx = 0 /\ len = 0 /\ is_first_symbol = FALSE
    /\ sample_time = 0 /\ noise = NoNoise /\ noise_created = 0
    /\ noise_calls = 0 /\ tone_calls = 0 /\ char_start = 0
    /\ timing = None /\ params = NoParams /\ tone_generator = NoTone
    /\ CliIdle /\ TextIdle /\ MorseIdle /\ PracticeIdle

(* audio.rs 316-323: the writer is created, or the I/O error is returned *)
WavCreate ==
    /\ pc = "wav_create"
    /\ \E io_ok \in BOOLEAN : pc' = IF io_ok THEN "wav_loop" ELSE "wav_err"
    /\ UNCHANGED <<args, err, timing, params, text, chIdx, morseVars,
                   renderVars, tone_generator, wavVars, practiceVars>>

(* audio.rs 325-329: one iteration of `for &sample in samples` *)
WavWriteSample ==
    /\ pc = "wav_loop"
    /\ i < Len(samples)
    /\ \E io_ok \in BOOLEAN :
          IF io_ok
          THEN /\ written' = Append(written, SampleToI16(samples[i + 1]))
               /\ i' = i + 1
               /\ UNCHANGED pc
          ELSE /\ pc' = "wav_err"
               /\ UNCHANGED <<written, i>>
    /\ UNCHANGED <<args, err, timing, params, text, chIdx, morseVars,
                   sample_rate, samples, code, symIdx, len, is_first_symbol,
                   sample_time, noise, noise_created, noise_calls, tone_calls,
                   char_start, tone_generator, practiceVars>>

(* audio.rs 331-332 *)
WavFinalize ==
    /\ pc = "wav_loop"
    /\ i >= Len(samples)
    /\ \E io_ok \in BOOLEAN : pc' = IF io_ok THEN "wav_done" ELSE "wav_err"
    /\ UNCHANGED <<args, err, timing, params, text, chIdx, morseVars,
                   renderVars, tone_generator, wavVars, practiceVars>>

NextWav == WavCreate \/ WavWriteSample \/ WavFinalize

SpecWav == InitWav /\ [][NextWav]_vars

-----------------------------------------------------------------------------
(* Properties of SpecWav *)

Abs(x) == IF x < 0 THEN -x ELSE x

(* C11: every sample s is written as trunc(clamp(s * 32767, -32768, 32767)),
   a value of the signed 16-bit range; for s in [-1, 1] the decoded value
   v / 32767 differs from s by at most 1 / 32767; a sample outside [-1, 1]
   saturates instead of wrapping. *)
C11_WavConversion ==
    /\ Len(written) <= Len(samples)
    /\ \A k \in 1..Len(written) :
          LET n == samples[k]
              v == written[k]
              x == n * I16Max
              c == IF x < I16Min * SampleDen THEN I16Min * SampleDen
                   ELSE IF x > I16Max * SampleDen THEN I16Max * SampleDen
                   ELSE x
          IN  /\ v >= I16Min /\ v <= I16Max
              /\ Abs(v * SampleDen) <= Abs(c)
              /\ Abs(c - v * SampleDen) < SampleDen
              /\ (c >= 0 => v >= 0) /\ (c <= 0 => v <= 0)
              /\ (n >= -SampleDen /\ n <= SampleDen)
                    => Abs(v * SampleDen - n * I16Max) <= SampleDen
              /\ n > SampleDen => v = I16Max
              /\ n < -SampleDen => v <= -I16Max
              /\ x <= I16Min * SampleDen => v = I16Min

C11_Witness ==
    /\ pc = "wav_done"
    /\ Len(written) = Len(samples)
    /\ \E k \in 1..Len(samples) : samples[k] > SampleDen /\ written[k] = I16Max
    /\ \E k \in 1..Len(samples) :
          /\ samples[k] < 0 /\ samples[k] > -SampleDen
          /\ (samples[k] * I16Max) % SampleDen # 0


-----------------------------------------------------------------------------
(* audio.rs: MorseAudio::new_with_sample_rate on inputs whose attack and
   release windows are several samples long *)

MaxEnvelopeTextLen == 2    \* texts have at most MaxEnvelopeTextLen characters

EnvelopeSampleRates == {250, 500}

EnvelopeTimings == {Timing_new(20, 0), Timing_new(100, 0)}

InitEnvelope ==
    /\ pc = "entry"
    /\ text \in UNION {[1..n -> Alphabet] : n \in 0..MaxEnvelopeTextLen}
    /\ sample_rate \in EnvelopeSampleRates
    /\ timing \in {Some(t) : t \in EnvelopeTimings}
    /\ params \in [tone : RenderTones, qrm : QrmLevels,
                   tone_shape : ToneShapes,
                   drift_percentage : DriftPercentages]
    /\ chIdx = 0
    /\ samples = <<>> /\ code = <<>> /\ symIdx = 0
    /\ i = 0 /\ len = 0 /\ is_first_symbol = FALSE /\ sample_time = 0
    /\ noise = NoNoise /\ noise_created = 0 /\ noise_calls = 0
    /\ tone_calls = 0 /\ char_start = 0
    /\ tone_generator = NoTone
    /\ CliIdle /\ MorseIdle /\ WavIdle /\ PracticeIdle

SpecEnvelope == InitEnvelope /\ [][NextRender]_vars

-----------------------------------------------------------------------------
(* Properties of SpecEnvelope *)

IsElement(sym) == sym \in {".", "-"}

(* the symbol being sounded is the first dot or dash of the text *)
FirstSymbolOfRender ==
    /\ \A j \in 1..(chIdx - 1) :
          IsMapped(text[j])
             => \A q \in 1..Len(MORSE[to_ascii_uppercase(text[j])]) :
                   ~IsElement(MORSE[to_ascii_uppercase(text[j])][q])
    /\ \A q \in 1..(symIdx - 1) : ~IsElement(code[q])

(* C12: the envelope multiplier of tone sample k of a symbol of n samples is
   (n - k) / release when k >= n - release, else k / attack when k < attack,
   else 1; it is multiplied by 0.1 exactly for sample 0 of the first symbol
   of the render; it lies in [0, 1].  The sample looked at is the one the
   symbol loop has just pushed. *)
C12_Envelope ==
    (pc = "tone" /\ i > 0)
        => LET k == i - 1
               n == len
               attack == AttackSamples(sample_rate, timing.val)
               release == ReleaseSamples(sample_rate, timing.val)
               amp == samples[Len(samples)].amp
               base == IF k >= n - release THEN <<n - k, release>>
                       ELSE IF k < attack THEN <<k, attack>>
                       ELSE <<1, 1>>
               scale == IF FirstSymbolOfRender /\ k = 0 THEN 10 ELSE 1
           IN  /\ samples[Len(samples)].tone
               /\ amp[2] > 0 /\ base[2] > 0
               /\ amp[1] * base[2] * scale = base[1] * amp[2]
               /\ amp[1] >= 0 /\ amp[1] <= amp[2]

(* a sample of the release ramp of a symbol that is not the first *)
C12_Witness ==
    /\ pc = "tone" /\ i > 0
    /\ ~FirstSymbolOfRender
    /\ AttackSamples(sample_rate, timing.val) >= 2
    /\ ReleaseSamples(sample_rate, timing.val) >= 3
    /\ i - 1 > len - ReleaseSamples(sample_rate, timing.val)
    /\ samples[Len(samples)].amp
          = <<len - (i - 1), ReleaseSamples(sample_rate, timing.val)>>


-----------------------------------------------------------------------------
(* Properties of SpecCli: the unsigned subtractions *)

(* the sample rates of play_audio and save_audio_to_wav and those of the
   rendering model *)
UnderflowRates == {44100, WavSampleRate} \cup RenderSampleRates

(* C13: for every configuration validate_args accepts no unsigned
   subtraction underflows: overall_unit * 7 >= char_unit * 6 in
   Timing::new_farnsworth, chr >= sym and wrd >= chr for the gaps, and
   release <= len for every dot and dash; main does not panic while it
   builds the Timing. *)
C13_NoUnderflow ==
    /\ pc # "panic"
    /\ (pc \in {"validated", "timing_built"} /\ args.farnsworth.some)
          => (MsPerUnitBase \div args.wpm) * 7
                >= (MsPerUnitBase \div args.farnsworth.val) * 6
    /\ pc = "timing_built"
          => /\ timing.val.chr >= timing.val.sym
             /\ timing.val.wrd >= timing.val.chr
             /\ \A r \in UnderflowRates :
                   /\ (r * timing.val.sym * 25) \div 100000
                         <= (r * timing.val.dot) \div 1000
                   /\ (r * timing.val.sym * 25) \div 100000
                         <= (r * timing.val.dash) \div 1000

(* the Farnsworth pair with the smallest margin, and the slowest speed *)
C13_Witness ==
    /\ pc = "timing_built"
    /\ args.farnsworth.some /\ args.farnsworth.val = args.wpm + 1
    /\ args.farnsworth.val = MaxFarnsworth
    /\ timing.val.chr > timing.val.sym


-----------------------------------------------------------------------------
(* morse.rs: PracticeMode::get_content; a word is a sequence of chars *)

(* PracticeMode::RandomWords *)
RandomWordsContent ==
    <<<<"T", "H", "E">>, <<"Q", "U", "I", "C", "K">>,
      <<"B", "R", "O", "W", "N">>, <<"F", "O", "X">>,
      <<"J", "U", "M", "P", "S">>, <<"O", "V", "E", "R">>,
      <<"L", "A", "Z", "Y">>, <<"D", "O", "G">>, <<"P", "A", "R", "I", "S">>,
      <<"C", "O", "D", "E", "X">>, <<"M", "O", "R", "S", "E">>,
      <<"H", "A", "M">>, <<"R", "A", "D", "I", "O">>,
      <<"S", "I", "G", "N", "A", "L">>, <<"C", "O", "D", "E">>>>

(* PracticeMode::Callsigns *)
CallsignsContent ==
    <<<<"W", "1", "A", "W">>, <<"K", "2", "A", "B", "C">>,
      <<"N", "3", "X", "Y", "Z">>, <<"W", "4", "D", "E", "F">>,
      <<"K", "5", "G", "H", "I">>, <<"N", "6", "J", "K", "L">>,
      <<"W", "7", "M", "N", "O">>, <<"K", "8", "P", "Q", "R">>,
      <<"N", "9", "S", "T", "U">>, <<"V", "E", "3", "A", "B", "C">>,
      <<"G", "4", "H", "A", "M">>>>

(* PracticeMode::QCodes *)
QCodesContent ==
    <<<<"Q", "T", "H">>, <<"Q", "R", "Z">>, <<"Q", "S", "L">>,
      <<"Q", "R", "M">>, <<"Q", "R", "N">>, <<"Q", "R", "P">>,
      <<"Q", "R", "Q">>, <<"Q", "R", "S">>, <<"Q", "R", "T">>,
      <<"Q", "R", "U">>, <<"Q", "R", "V">>, <<"Q", "S", "B">>,
      <<"Q", "S", "Y">>, <<"Q", "S", "O">>>>

(* PracticeMode::Numbers *)
NumbersContent ==
    <<<<"1", "2", "3">>, <<"4", "5", "6">>, <<"7", "8", "9">>,
      <<"0", "1", "2">>, <<"3", "4", "5">>, <<"6", "7", "8">>,
      <<"9", "0", "1">>, <<"2", "3", "4">>, <<"5", "6", "7">>,
      <<"8", "9", "0">>, <<"7", "3">>, <<"8", "8">>, <<"5", "5">>>>

(* PracticeMode::Custom without a custom text *)
DefaultCustomContent ==
    <<<<"C", "Q">>, <<"D", "E">>, <<"T", "E", "S", "T">>>>

PracticeModes == {"RandomWords", "Callsigns", "QCodes", "Numbers", "Custom"}

(* str::split_whitespace: the maximal runs of non-whitespace characters;
   cur is the run being read, acc the runs read so far *)
RECURSIVE SplitFrom(_, _, _)
SplitFrom(s, cur, acc) ==
    IF s = <<>>
    THEN IF cur = <<>> THEN acc ELSE Append(acc, cur)
    ELSE IF IsWhitespace(Head(s))
         THEN SplitFrom(Tail(s), <<>>,
                        IF cur = <<>> THEN acc ELSE Append(acc, cur))
         ELSE SplitFrom(Tail(s), Append(cur, Head(s)), acc)

split_whitespace(s) == SplitFrom(s, <<>>, <<>>)

(* PracticeMode::get_content *)
get_content(m, custom) ==
    CASE m = "RandomWords" -> RandomWordsContent
      [] m = "Callsigns" -> CallsignsContent
      [] m = "QCodes" -> QCodesContent
      [] m = "Numbers" -> NumbersContent
      [] m = "Custom" -> IF custom.some THEN split_whitespace(custom.val)
                         ELSE DefaultCustomContent

-----------------------------------------------------------------------------
(* interactive.rs: practice_mode.  An index is 0-based as in the code;
   content[k] of the code is content[k + 1] here. *)

(* what event::read returns: a key, another event or an error *)
Events == {"Esc", "Space", "r", "R", "OtherKey", "NotAKey", "ReadError"}

InitPractice ==
    /\ pc = "pm_entry"
    /\ mode \in PracticeModes
    /\ custom_text \in {None} \cup {Some(t) : t \in Texts}
    /\ content = <<>>
    /\ current_index = 0
    /\ current_word = <<>>
    /\ indexed = None
    /\ key = "None"
    /\ timing = None /\ params = NoParams /\ tone_generator = NoTone
    /\ CliIdle /\ TextIdle /\ MorseIdle /\ RenderIdle /\ WavIdle

(* the next word: (current_index + 1) % content.len() *)
NextIndex(idx, n) == (idx + 1) % n

(* interactive.rs 58-64: the list is built and its entry 0 is taken; an
   index that is not below content.len() panics *)
PmBegin ==
    /\ pc = "pm_entry"
    /\ content' = get_content(mode, custom_text)
    /\ current_index' = 0
    /\ indexed' = Some(0)
    /\ IF Len(content') = 0
       THEN pc' = "panic" /\ UNCHANGED current_word
       ELSE pc' = "pm_play" /\ current_word' = content'[1]
    /\ UNCHANGED <<mode, custom_text, key, args, err, timing, params, text,
                   chIdx, morseVars, renderVars, tone_generator, wavVars>>

(* interactive.rs 67-75: the word is printed and played; the errors of
   text_to_morse and play_audio are printed and otherwise ignored *)
PmPlay ==
    /\ pc = "pm_play"
    /\ pc' = "pm_read"
    /\ UNCHANGED <<practiceVars, args, err, timing, params, text, chIdx,
                   morseVars, renderVars, tone_generator, wavVars>>

(* interactive.rs 77-92: one event is read and handled *)
PmEvent ==
    /\ pc = "pm_read"
    /\ \E ev \in Events :
          /\ key' = ev
          /\ CASE ev = "ReadError" ->
                    pc' = "pm_err"
                    /\ UNCHANGED <<current_index, current_word, indexed>>
               [] ev = "Esc" ->
                    pc' = "pm_done"
                    /\ UNCHANGED <<current_index, current_word, indexed>>
               [] ev = "Space" ->
                    /\ current_index' = NextIndex(current_index, Len(content))
                    /\ indexed' = Some(current_index')
                    /\ current_word' = content[current_index' + 1]
                    /\ pc' = "pm_play"
               [] OTHER ->
                    pc' = "pm_play"
                    /\ UNCHANGED <<current_index, current_word, indexed>>
    /\ UNCHANGED <<mode, custom_text, content, args, err, timing, params, text,
                   chIdx, morseVars, renderVars, tone_generator, wavVars>>

NextPractice == PmBegin \/ PmPlay \/ PmEvent

SpecPractice == InitPractice /\ [][NextPractice]_vars

-----------------------------------------------------------------------------
(* Properties of SpecPractice *)

(* every `content[...]` of practice_mode used an index of the list *)
IndexValid == indexed.some => (indexed.val >= 0 /\ indexed.val < Len(content))

(* Space moves to the next word with wraparound, every other key leaves
   the index alone *)
KeyStep ==
    pc = "pm_read"
        => IF key' = "Space"
           THEN current_index' = (current_index + 1) % Len(content)
           ELSE current_index' = current_index

(* C14: for every PracticeMode and custom_text the index is a valid index
   of the list whenever the list is indexed; Space moves it to
   (current_index + 1) mod content.len(), R and every other key leave it
   unchanged. *)
C14_PracticeIndex == [](IndexValid) /\ [][KeyStep]_vars

=============================================================================
